---- MODULE Spec2Model ----
(***************************************************************************)
(* A model of the skeleton library: the tab registry kept by Skeleton and  *)
(* header (pages, headers, active index, global and per-tab locks, key     *)
(* navigation) and the Updater, the process-wide refresh channel with its  *)
(* single-listener guard.                                                  *)
(*                                                                         *)
(* Indices are 0-based as in the Go source: tab i is headers[i + 1].       *)
(* The source files hold several revisions one after another; the model    *)
(* follows the last revision of each (skeleton.go:420-925,                 *)
(* updater.go:46-117 and updater.go:119-434).                              *)
(*                                                                         *)
(* The layout part holds the viewport, the title length the header         *)
(* computes, the two size flags View reads and the size messages on their  *)
(* way to Update.                                                          *)
(***************************************************************************)
EXTENDS Integers, Sequences, FiniteSets, Bags, TLC

\* ---------------------------------------------------------------- bounds

\* Number of distinct page keys callers use.
NumKeys == 3

\* Capacity of the Updater channel in the model.  The source allocates 256
\* slots (updater.go:67); the model keeps the same send and receive rules
\* on a channel this small.
ChanCap == 2

\* Messages that Listen commands have taken from the channel and that the
\* event loop has not handled yet.
MaxInflight == 2

\* Number of those keys used for pages added in the specification of the bus.
NumBusKeys == 1

\* Number of those keys used in the specification of the layout.
NumViewKeys == 2

\* HeaderSizeMsg commands the host holds at one time.
MaxSizeCmds == 1

\* IAMActivePage commands the host holds at one time.
MaxIam == 2

KeyNames == <<"a", "b", "c", "d", "e", "f">>

Keys == {KeyNames[i] : i \in 1..NumKeys}

BusKeys == {KeyNames[i] : i \in 1..NumBusKeys}

ViewKeys == {KeyNames[i] : i \in 1..NumViewKeys}

NoKey == ""

DefaultTitle == "t"

\* Titles callers give to tabs: one and four characters long
Titles == {DefaultTitle, "Logs"}

\* tea.WindowSizeMsg{Width, Height}: no terminal yet, one that holds one
\* tab of either title, one that holds two
WindowSizes == {<<0, 0>>, <<12, 24>>, <<24, 24>>}

\* newTerminalViewport: &viewport.Model{Width: 80, Height: 24}
DefaultWidth == 80

DefaultHeight == 24

\* defaultHeaderProperties: leftPadding := 2, rightPadding := 2
DefaultPadding == 2

\* NewSkeleton's properties: the border colour
DefaultBorderColor == "39"

\* Colours callers set
Colors == {DefaultBorderColor, "214"}

\* Paddings callers set
Paddings == {0, DefaultPadding}

\* Window sizes with none, one and both dimensions positive.
ResizeSizes == {<<0, 0>>, <<12, 0>>, <<0, 24>>, <<12, 24>>}

\* The most lines a page's body has
MaxBodyLines == 3

\* What a page's View returns, as the sequence of its lines (the text
\* between the newlines): some blank, some not
Bodies == UNION {[1..n -> {"", "x"}] : n \in 1..MaxBodyLines}

\* Terminals too low for a body, as high as a short body, and the default one
LayoutSizes == {<<12, 4>>, <<12, 6>>, <<12, 7>>, <<12, 24>>}

\* Two tabs, whatever the bounds.
TwoKeys == {KeyNames[1], KeyNames[2]}

\* Widget keys in use.
NumWidgetKeys == 2

WidgetNames == <<"time", "cpu", "mem">>

WidgetKeys == {WidgetNames[i] : i \in 1..NumWidgetKeys}

WidgetValues == {"10:00", "10:01", "10:02"}

\* Widths and heights a caller passes to the viewport setters.
Dimensions == {0, 12}

VARIABLES
    headers,        \* header.headers: sequence of [key, title]
    pages,          \* Skeleton.pages: the page supplied with each tab
    currentTab,     \* Skeleton.currentTab
    hdrCurrentTab,  \* header.currentTab
    lockTabs,       \* Skeleton.lockTabs, the global lock flag
    lockedTabs,     \* header.lockedTabs, the keys mapped to true
    rcv,            \* Updater.rcv, the buffered channel
    listening,      \* Updater.listening, the listener guard
    armed,          \* Listen commands returned and not yet past the receive
    got,            \* messages received by a command that has not yet released the guard
    released,       \* messages of commands that released the guard and have not returned
    inflight,       \* messages returned by commands, not yet handled by Update
    started,        \* Skeleton.Init has returned: the host loop is running
    panicked,       \* a Go run-time panic ended the process
    last,           \* the last operation, the active index before it and its outcome
    termReady,      \* Skeleton.termReady
    vpWidth,        \* vp.Width, the viewport Skeleton and header share
    vpHeight,       \* vp.Height
    termSizeNotEnoughToHandleHeaders,  \* Skeleton's flag: true when the header fits
    termSizeNotEnoughToHandleWidgets,  \* Skeleton's flag: true when the widgets fit
    leftTabPadding,   \* header.properties.leftTabPadding
    rightTabPadding,  \* header.properties.rightTabPadding
    titleLength,    \* header.titleLength
    sizeCmds,       \* HeaderSizeMsg commands returned to the host, not yet handled
    pageInits,      \* keys of the pages whose Init() Update has called
    widgets,        \* the widget bar's entries: sequence of [key, value]
    borderColor,    \* Skeleton.properties.borderColor
    iam,            \* IAMActivePage commands the host holds, each with the page
                    \* that was made active when switchPage returned it
    mu,             \* Updater.mu: "free", or the thread that holds it
    loopPc,         \* where the event-loop thread is: "idle" between calls
    bgPc            \* where the application's background goroutine is

vars == <<headers, pages, currentTab, hdrCurrentTab, lockTabs, lockedTabs,
          rcv, listening, armed, got, released, inflight, started, panicked, last,
          termReady, vpWidth, vpHeight, termSizeNotEnoughToHandleHeaders,
          termSizeNotEnoughToHandleWidgets, leftTabPadding, rightTabPadding,
          titleLength, sizeCmds, pageInits, widgets, borderColor, iam,
          mu, loopPc, bgPc>>

registry == <<headers, pages, currentTab, hdrCurrentTab, lockTabs, lockedTabs>>

pipeline == <<armed, got, released, inflight>>

\* The terminal, the two size flags and the tab paddings
screen == <<termReady, vpWidth, vpHeight, termSizeNotEnoughToHandleHeaders,
            termSizeNotEnoughToHandleWidgets, leftTabPadding, rightTabPadding,
            sizeCmds>>

\* The widget bar and the colours
bar == <<widgets, borderColor>>

\* The mutex of the Updater and the positions of the two threads
threads == <<mu, loopPc, bgPc>>

extras == <<bar, iam, threads>>

display == <<screen, titleLength, pageInits, extras>>

\* ------------------------------------------------------------- messages

UpdateMsgInstance == [type |-> "UpdateMsg", key |-> NoKey]

AddPageMsg(key) == [type |-> "AddPageMsg", key |-> key]

CustomMsg == [type |-> "Custom", key |-> NoKey]

\* HeaderSizeMsg{NotEnoughToHandleHeaders: true}, as a caller can pass it to
\* TriggerUpdateWithMsg and as header.calculateTitleLength's command returns it
\* (there with either value)
HeaderSizeMsgTrue == [type |-> "HeaderSizeMsg", key |-> NoKey]

\* What callers pass to TriggerUpdateWithMsg(msg tea.Msg): a type of their
\* own
Payloads == {CustomMsg}

\* The same, and a type Update has a case of its own for
LoopPayloads == {CustomMsg, HeaderSizeMsgTrue}

\* -------------------------------------------------------------- Updater

\* A Send whose capacity test is off by one.
Send_OffByOne(q, m) == IF Len(q) <= ChanCap THEN Append(q, m) ELSE q

\* select { case u.rcv <- msg: default: }
Send(q, m) == IF Len(q) < ChanCap THEN Append(q, m) ELSE q

RECURSIVE SendN(_, _, _)
\* n calls of Updater.Update() in a row
SendN(q, m, n) == IF n = 0 THEN q ELSE SendN(Send(q, m), m, n - 1)

\* The first revision of Listen (updater.go:29-34): no guard.
Listen_NoGuard(l, a) == [listening |-> l, armed |-> a + 1, cmd |-> TRUE]

\* Updater.Listen under u.mu: nil when the guard is set, else set it and
\* return a command.
Listen(l, a) ==
    IF l THEN [listening |-> TRUE, armed |-> a, cmd |-> FALSE]
    ELSE [listening |-> TRUE, armed |-> a + 1, cmd |-> TRUE]

\* ------------------------------------------------------------- registry

HeaderKeys(hs) == {hs[i].key : i \in 1..Len(hs)}

\* Skeleton.IsTabLocked -> header.IsTabLocked: h.lockedTabs[key]
IsTabLocked(key) == key \in lockedTabs

\* header.GetLockTabs: every header's key is locked
GetLockTabs == \A i \in 1..Len(headers) : IsTabLocked(headers[i].key)

\* An IsTabsLocked that asks the header instead of reading the flag.
IsTabsLocked_FromHeader == GetLockTabs

\* Skeleton.IsTabsLocked
IsTabsLocked == lockTabs

\* s.header.headers[s.currentTab] is in range
ActiveInRange == currentTab >= 0 /\ currentTab < Len(headers)

GetActivePage == headers[currentTab + 1].key

\* What `last` keeps of an operation: its name, the active index before it
\* and what it did or returned.
Record(op, ret) == [op |-> op, from |-> currentTab, ret |-> ret, page |-> NoKey]

\* The same for an Update that passed its message on to a page
RecordTo(op, ret, page) == [op |-> op, from |-> currentTab, ret |-> ret, page |-> page]

\* ------------------------------------------------------ header (updater.go)

RECURSIVE calculateTitleLength(_, _, _)
\* header.calculateTitleLength: the value it stores in h.titleLength
calculateTitleLength(hs, left, right) ==
    IF hs = <<>> THEN 0
    ELSE Len(Head(hs).title) + left + right + 2
         + calculateTitleLength(Tail(hs), left, right)

\* A fit test that forgets the two columns of the border.
HeaderSizeMsg_NoBorder(width, titleLen) == ~(width - titleLen < 0)

\* The NotEnoughToHandleHeaders field of the HeaderSizeMsg its command
\* returns: false when requiredLineCountForLine < 0
HeaderSizeMsg(width, titleLen) == ~(width - (titleLen + 2) < 0)

\* header.LockTab: h.lockedTabs[key] = true
hdr_LockTab(locked, key) == locked \cup {key}

\* header.UnlockTab: delete(h.lockedTabs, key)
hdr_UnlockTab(locked, key) == locked \ {key}

\* A revision of SetLockTabs that keeps the map when unlocking.
hdr_SetLockTabs_KeepMap(lock, hs, locked) ==
    IF lock THEN locked \cup HeaderKeys(hs) ELSE locked

\* header.SetLockTabs: lock every header's key, or replace the map by an
\* empty one.
hdr_SetLockTabs(lock, hs, locked) ==
    IF lock THEN locked \cup HeaderKeys(hs) ELSE {}

\* append(h.headers[:i], h.headers[i+1:]...) on the backing array `back`
\* whose first n cells are h.headers: the cells after i move one to the
\* left and the cell n - 1 keeps its old content.
ShiftLeft(back, n, i) ==
    [j \in 1..Len(back) |-> IF j >= i + 1 /\ j <= n - 1 THEN back[j + 1] ELSE back[j]]

RECURSIVE DeleteLoop(_, _, _, _)
\* The range loop of DeleteCommonHeader.  Go evaluates the range expression
\* once, so the loop visits the cells 0..Len(back)-1 of the backing array
\* while h.headers (its first n cells) shrinks under it.  Slicing
\* h.headers[i+1:] with i + 1 > n panics.
DeleteLoop(back, n, i, key) ==
    IF i >= Len(back) THEN [headers |-> SubSeq(back, 1, n), panic |-> FALSE]
    ELSE IF back[i + 1].key = key
         THEN IF i + 1 > n THEN [headers |-> SubSeq(back, 1, n), panic |-> TRUE]
              ELSE DeleteLoop(ShiftLeft(back, n, i), n - 1, i + 1, key)
         ELSE DeleteLoop(back, n, i + 1, key)

\* header.DeleteCommonHeader, without its trailing updater.Update()
hdr_DeleteCommonHeader(hs, key) == DeleteLoop(hs, Len(hs), 0, key)

\* A filter that drops the last page, whatever the key.
FilterPages_DropLast(ps, hs, i, key) == SubSeq(ps, 1, Len(ps) - 1)

RECURSIVE FilterPages(_, _, _, _)
\* for i := range s.pages { if s.header.headers[i].key != key { append } }
\* (pages and headers have the same length in every reachable state)
FilterPages(ps, hs, i, key) ==
    IF i >= Len(ps) THEN <<>>
    ELSE IF hs[i + 1].key # key
         THEN <<ps[i + 1]>> \o FilterPages(ps, hs, i + 1, key)
         ELSE FilterPages(ps, hs, i + 1, key)

\* ------------------------------------------------- Skeleton (skeleton.go)

\* A DeletePage without the one-page floor.
DeleteRefused_Never(ps) == FALSE

\* DeletePage: if len(s.pages) == 1 { return s }
DeleteRefused(ps) == Len(ps) = 1

\* An AddPage that never finds the key.
KeyExists_Never(hs, key) == FALSE

\* AddPage's loop over s.header.headers: some header has the key
KeyExists(hs, key) == key \in HeaderKeys(hs)

\* AddPage(key, title, page)
AddPage(key, title, page) ==
    /\ ~panicked
    /\ IF KeyExists(headers, key)
       THEN /\ last' = Record("AddPage", "duplicate")
            /\ UNCHANGED <<headers, pages, rcv, titleLength>>
       ELSE /\ headers' = Append(headers, [key |-> key, title |-> title])
            /\ titleLength' = calculateTitleLength(headers', leftTabPadding, rightTabPadding)
            /\ pages' = Append(pages, page)
            \* AddCommonHeader's updater.Update(), then UpdateWithMsg(AddPageMsg)
            /\ rcv' = Send(Send(rcv, UpdateMsgInstance), AddPageMsg(key))
            /\ last' = Record("AddPage", "added")
    /\ UNCHANGED <<currentTab, hdrCurrentTab, lockTabs, lockedTabs,
                   listening, pipeline, started, panicked, screen, pageInits>>
    /\ UNCHANGED extras

\* A DeletePage that never takes the deleted tab for the active one.
DeletesActive_Never(key) == FALSE

\* DeletePage: s.GetActivePage() == key
DeletesActive(key) == GetActivePage = key

\* DeletePage(key)
DeletePage(key) ==
    /\ ~panicked
    /\ IF DeleteRefused(pages)
       THEN /\ last' = Record("DeletePage", "refused")
            /\ UNCHANGED <<headers, pages, currentTab, hdrCurrentTab, rcv, panicked,
                           titleLength>>
       ELSE IF ~ActiveInRange
       THEN \* s.GetActivePage() indexes out of range
            /\ panicked' = TRUE
            /\ last' = Record("DeletePage", "panic")
            /\ UNCHANGED <<headers, pages, currentTab, hdrCurrentTab, rcv, titleLength>>
       ELSE LET reset == DeletesActive(key)
                d == hdr_DeleteCommonHeader(headers, key)
            IN /\ currentTab' = IF reset THEN 0 ELSE currentTab
               /\ hdrCurrentTab' = IF reset THEN 0 ELSE hdrCurrentTab
               /\ headers' = d.headers
               /\ panicked' = d.panic
               /\ last' = Record("DeletePage", IF d.panic THEN "panic" ELSE "done")
               /\ IF d.panic
                  THEN UNCHANGED <<pages, rcv, titleLength>>
                  ELSE /\ pages' = FilterPages(pages, headers, 0, key)
                       /\ titleLength' = calculateTitleLength(d.headers, leftTabPadding,
                                                              rightTabPadding)
                       \* DeleteCommonHeader's updater.Update(), then s.updater.Update()
                       /\ rcv' = SendN(rcv, UpdateMsgInstance, 2)
    /\ UNCHANGED <<lockTabs, lockedTabs, listening, pipeline, started, screen, pageInits>>
    /\ UNCHANGED extras

\* A SetActivePage that sets the index of the Skeleton and not the header's.
SetActivePage_SkeletonOnly(key) ==
    /\ ~panicked
    /\ IF key \in HeaderKeys(headers)
       THEN LET i == CHOOSE j \in 0..(Len(headers) - 1) : headers[j + 1].key = key
            IN /\ currentTab' = i
               /\ rcv' = Send(rcv, UpdateMsgInstance)
       ELSE UNCHANGED <<currentTab, rcv>>
    /\ last' = Record("SetActivePage", "")
    /\ UNCHANGED <<headers, pages, hdrCurrentTab, lockTabs, lockedTabs,
                   listening, pipeline, started, panicked>>
    /\ UNCHANGED display

\* A SetActivePage that leaves a locked tab alone.
SetActivePage_RespectsLock(key) ==
    /\ ~panicked
    /\ IF key \in HeaderKeys(headers) /\ ~lockTabs /\ key \notin lockedTabs
       THEN LET i == CHOOSE j \in 0..(Len(headers) - 1) : headers[j + 1].key = key
            IN /\ currentTab' = i
               /\ hdrCurrentTab' = i
               /\ rcv' = Send(rcv, UpdateMsgInstance)
       ELSE UNCHANGED <<currentTab, hdrCurrentTab, rcv>>
    /\ last' = Record("SetActivePage", "")
    /\ UNCHANGED <<headers, pages, lockTabs, lockedTabs,
                   listening, pipeline, started, panicked>>
    /\ UNCHANGED display

\* SetActivePage(key): the index of the first header with that key, if any
SetActivePage(key) ==
    /\ ~panicked
    /\ IF key \in HeaderKeys(headers)
       THEN LET i == CHOOSE j \in 0..(Len(headers) - 1) :
                        /\ headers[j + 1].key = key
                        /\ \A m \in 0..(j - 1) : headers[m + 1].key # key
            IN /\ currentTab' = i
               /\ hdrCurrentTab' = i
               /\ rcv' = Send(rcv, UpdateMsgInstance)
       ELSE UNCHANGED <<currentTab, hdrCurrentTab, rcv>>
    /\ last' = Record("SetActivePage", "")
    /\ UNCHANGED <<headers, pages, lockTabs, lockedTabs,
                   listening, pipeline, started, panicked>>
    /\ UNCHANGED display

\* LockTabs(): header.SetLockTabs(true), then the flag
LockTabs ==
    /\ ~panicked
    /\ lockedTabs' = hdr_SetLockTabs(TRUE, headers, lockedTabs)
    /\ lockTabs' = TRUE
    \* one Update() per header.LockTab, one in SetLockTabs, one in LockTabs
    /\ rcv' = SendN(rcv, UpdateMsgInstance, Len(headers) + 2)
    /\ last' = Record("LockTabs", "")
    /\ UNCHANGED <<headers, pages, currentTab, hdrCurrentTab,
                   listening, pipeline, started, panicked>>
    /\ UNCHANGED display

\* UnlockTabs(): header.SetLockTabs(false), the flag, then UnlockTab for
\* every header
UnlockTabs ==
    /\ ~panicked
    /\ lockedTabs' = hdr_SetLockTabs(FALSE, headers, lockedTabs) \ HeaderKeys(headers)
    /\ lockTabs' = FALSE
    \* one Update() in SetLockTabs, two per UnlockTab, one in UnlockTabs
    /\ rcv' = SendN(rcv, UpdateMsgInstance, 2 * Len(headers) + 2)
    /\ last' = Record("UnlockTabs",
                       IF lockedTabs \ HeaderKeys(headers) # {} THEN "cleared-absent"
                       ELSE IF lockedTabs # {} \/ lockTabs THEN "cleared" ELSE "")
    /\ UNCHANGED <<headers, pages, currentTab, hdrCurrentTab,
                   listening, pipeline, started, panicked>>
    /\ UNCHANGED display

\* LockTab(key)
LockTab(key) ==
    /\ ~panicked
    /\ lockedTabs' = hdr_LockTab(lockedTabs, key)
    /\ rcv' = SendN(rcv, UpdateMsgInstance, 2)
    /\ last' = Record("LockTab", "")
    /\ UNCHANGED <<headers, pages, currentTab, hdrCurrentTab, lockTabs,
                   listening, pipeline, started, panicked>>
    /\ UNCHANGED display

\* UnlockTab(key)
UnlockTab(key) ==
    /\ ~panicked
    /\ lockedTabs' = hdr_UnlockTab(lockedTabs, key)
    /\ rcv' = SendN(rcv, UpdateMsgInstance, 2)
    /\ last' = Record("UnlockTab", "")
    /\ UNCHANGED <<headers, pages, currentTab, hdrCurrentTab, lockTabs,
                   listening, pipeline, started, panicked>>
    /\ UNCHANGED display

\* A LockTabsToTheRight that starts at the active tab.
LockTabsToTheRight_FromActive ==
    /\ ~panicked
    /\ IF currentTab >= Len(headers) - 1
       THEN UNCHANGED <<lockedTabs, rcv>>
       ELSE LET side == currentTab..(Len(headers) - 1)
            IN /\ lockedTabs' = lockedTabs \cup {headers[i + 1].key : i \in side}
               /\ rcv' = SendN(rcv, UpdateMsgInstance, 2 * Cardinality(side) + 1)
    /\ last' = Record("LockTabsToTheRight", "")
    /\ UNCHANGED <<headers, pages, currentTab, hdrCurrentTab, lockTabs,
                   listening, pipeline, started, panicked>>
    /\ UNCHANGED display

\* LockTabsToTheRight()
LockTabsToTheRight ==
    /\ ~panicked
    /\ IF currentTab >= Len(headers) - 1
       THEN UNCHANGED <<lockedTabs, rcv>>
       ELSE LET side == (currentTab + 1)..(Len(headers) - 1)
            IN /\ lockedTabs' = lockedTabs \cup {headers[i + 1].key : i \in side}
               /\ rcv' = SendN(rcv, UpdateMsgInstance, 2 * Cardinality(side) + 1)
    /\ last' = Record("LockTabsToTheRight", "")
    /\ UNCHANGED <<headers, pages, currentTab, hdrCurrentTab, lockTabs,
                   listening, pipeline, started, panicked>>
    /\ UNCHANGED display

\* LockTabsToTheLeft()
LockTabsToTheLeft ==
    /\ ~panicked
    /\ IF currentTab <= 0
       THEN UNCHANGED <<lockedTabs, rcv>>
       ELSE LET side == 0..(currentTab - 1)
            IN /\ lockedTabs' = lockedTabs \cup {headers[i + 1].key : i \in side}
               /\ rcv' = SendN(rcv, UpdateMsgInstance, 2 * Cardinality(side) + 1)
    /\ last' = Record("LockTabsToTheLeft", "")
    /\ UNCHANGED <<headers, pages, currentTab, hdrCurrentTab, lockTabs,
                   listening, pipeline, started, panicked>>
    /\ UNCHANGED display

RECURSIVE ScanLeft(_, _, _)
\* for nextTab := currentTab - 1; nextTab >= 0; nextTab-- : the first index
\* whose tab is not locked, -1 when the loop ends without one
ScanLeft(nextTab, hs, locked) ==
    IF nextTab < 0 THEN -1
    ELSE IF hs[nextTab + 1].key \notin locked THEN nextTab
    ELSE ScanLeft(nextTab - 1, hs, locked)

RECURSIVE ScanRight(_, _, _, _)
\* for nextTab := currentTab + 1; nextTab < len(s.pages); nextTab++
ScanRight(nextTab, n, hs, locked) ==
    IF nextTab >= n THEN -1
    ELSE IF hs[nextTab + 1].key \notin locked THEN nextTab
    ELSE ScanRight(nextTab + 1, n, hs, locked)

\* The first revision of switchPage (skeleton.go:309-324): one step, clamped
\* at the ends, whatever the per-tab locks.
switchPage_Clamped(position, cur, hs, n, locked) ==
    IF IsTabsLocked THEN -1
    ELSE IF position = "left" THEN (IF cur - 1 > 0 THEN cur - 1 ELSE 0)
    ELSE (IF cur + 1 < n - 1 THEN cur + 1 ELSE n - 1)

\* A switchPage that looks at the neighbouring tab only.
switchPage_Neighbour(position, cur, hs, n, locked) ==
    IF IsTabsLocked THEN -1
    ELSE IF position = "left"
    THEN (IF cur - 1 >= 0 /\ hs[cur].key \notin locked THEN cur - 1 ELSE -1)
    ELSE (IF cur + 1 < n /\ hs[cur + 2].key \notin locked THEN cur + 1 ELSE -1)

\* Skeleton.switchPage: the index it switches to, -1 when it returns cmds
\* unchanged
switchPage(position, cur, hs, n, locked) ==
    IF IsTabsLocked THEN -1
    ELSE IF position = "left" THEN ScanLeft(cur - 1, hs, locked)
    ELSE ScanRight(cur + 1, n, hs, locked)

\* An Init without the check for pages.
SkeletonInit_NoCheck ==
    /\ ~panicked
    /\ ~started
    /\ LET r == Listen(listening, armed)
       IN /\ listening' = r.listening
          /\ armed' = r.armed
          /\ started' = TRUE
          /\ UNCHANGED panicked
    /\ last' = Record("Init", "")
    /\ UNCHANGED <<registry, rcv, got, released, inflight>>
    /\ UNCHANGED display

\* Skeleton.Init
SkeletonInit ==
    /\ ~panicked
    /\ ~started
    /\ IF Len(pages) = 0
       THEN /\ panicked' = TRUE
            /\ UNCHANGED <<listening, armed, started>>
       ELSE LET r == Listen(listening, armed)
            IN /\ listening' = r.listening
               /\ armed' = r.armed
               /\ started' = TRUE
               /\ UNCHANGED panicked
    /\ last' = Record("Init", "")
    /\ UNCHANGED <<registry, rcv, got, released, inflight>>
    /\ UNCHANGED display

\* An updateSkeleton that passes every message to the first page.
ActivePage_First(cur, ps) == ps[1]

\* updateSkeleton: s.pages[s.currentTab], the page whose Update gets the
\* message
ActivePage(cur, ps) == ps[cur + 1]

\* Skeleton.Update(tea.KeyMsg) for the SwitchTabLeft / SwitchTabRight keys:
\* the resynchronisation with the header, switchPage, then updateSkeleton,
\* which indexes s.pages[s.currentTab].  What becomes of the command
\* switchPage returns is left to UpdateKey and UpdateKeyCmd.
KeyMsg(position) ==
    /\ ~panicked
    /\ started
    /\ LET t == switchPage(position, hdrCurrentTab, headers, Len(pages), lockedTabs)
           cur == IF t >= 0 THEN t ELSE hdrCurrentTab
           ok == cur >= 0 /\ cur < Len(pages)
       IN /\ currentTab' = cur
          /\ hdrCurrentTab' = cur
          /\ panicked' = ~ok
          /\ last' = RecordTo(position, IF t >= 0 THEN "IAMActivePage" ELSE "",
                              IF ok THEN ActivePage(cur, pages) ELSE NoKey)
    /\ UNCHANGED <<headers, pages, lockTabs, lockedTabs, rcv, listening,
                   pipeline, started>>
    /\ UNCHANGED <<screen, titleLength, pageInits, bar, threads>>

\* The key handled, the command it returns recorded in `last` only
UpdateKey(position) ==
    /\ KeyMsg(position)
    /\ UNCHANGED iam

\* The key handled and the IAMActivePage command it returns handed to the
\* host
UpdateKeyCmd(position) ==
    /\ BagCardinality(iam) < MaxIam
    /\ KeyMsg(position)
    /\ iam' = IF last'.ret = "IAMActivePage" /\ ~panicked'
              THEN iam (+) SetToBag({last'.page})
              ELSE iam

\* ----------------------------------------------- the bus and the event loop

\* Skeleton.TriggerUpdate -> Updater.Update, from any goroutine
TriggerUpdate ==
    /\ ~panicked
    /\ rcv' = Send(rcv, UpdateMsgInstance)
    /\ last' = Record("TriggerUpdate", IF Len(rcv) < ChanCap THEN "sent" ELSE "dropped")
    /\ UNCHANGED <<registry, listening, pipeline, started, panicked>>
    /\ UNCHANGED display

\* Skeleton.TriggerUpdateWithMsg -> Updater.UpdateWithMsg, from any goroutine
TriggerUpdateWithMsg(msg) ==
    /\ ~panicked
    /\ rcv' = Send(rcv, msg)
    /\ last' = Record("TriggerUpdateWithMsg", IF Len(rcv) < ChanCap THEN "sent" ELSE "dropped")
    /\ UNCHANGED <<registry, listening, pipeline, started, panicked>>
    /\ UNCHANGED display

Pending == BagCardinality(got) + BagCardinality(released) + BagCardinality(inflight)

One(m) == SetToBag({m})

\* The command returned by Listen: msg := <-u.rcv
CmdReceive ==
    /\ ~panicked
    /\ armed > 0
    /\ rcv # <<>>
    /\ Pending < MaxInflight
    /\ armed' = armed - 1
    /\ got' = got (+) One(Head(rcv))
    /\ rcv' = Tail(rcv)
    /\ last' = Record("CmdReceive", "")
    /\ UNCHANGED <<registry, listening, released, inflight, started, panicked>>
    /\ UNCHANGED display

\* A command that returns its message and leaves the guard set.
CmdRelease_KeepGuard(m) ==
    /\ ~panicked
    /\ BagIn(m, got)
    /\ got' = got (-) One(m)
    /\ released' = released (+) One(m)
    /\ last' = Record("CmdRelease", "")
    /\ UNCHANGED <<registry, rcv, listening, armed, inflight, started, panicked>>
    /\ UNCHANGED display

\* The command: u.mu.Lock(); u.listening = false; u.mu.Unlock()
CmdRelease(m) ==
    /\ ~panicked
    /\ BagIn(m, got)
    /\ got' = got (-) One(m)
    /\ released' = released (+) One(m)
    /\ listening' = FALSE
    /\ last' = Record("CmdRelease", "")
    /\ UNCHANGED <<registry, rcv, armed, inflight, started, panicked>>
    /\ UNCHANGED display

\* The command: return msg (the host will pass it to Update)
CmdReturn(m) ==
    /\ ~panicked
    /\ BagIn(m, released)
    /\ released' = released (-) One(m)
    /\ inflight' = inflight (+) One(m)
    /\ last' = Record("CmdReturn", "")
    /\ UNCHANGED <<registry, rcv, listening, armed, got, started, panicked>>
    /\ UNCHANGED display

\* The branches of Skeleton.Update that end in s.updater.Listen() (AddPageMsg,
\* UpdateMsg, default): the resynchronisation, updateSkeleton, which indexes
\* s.pages[s.currentTab], then Listen.
ListenAgain(op) ==
    /\ currentTab' = hdrCurrentTab
    /\ IF ~(hdrCurrentTab >= 0 /\ hdrCurrentTab < Len(pages))
       THEN /\ panicked' = TRUE
            /\ last' = Record(op, "")
            /\ UNCHANGED <<listening, armed>>
       ELSE LET r == Listen(listening, armed)
            IN /\ listening' = r.listening
               /\ armed' = r.armed
               /\ last' = RecordTo(op, IF r.cmd THEN "cmd" ELSE "nil",
                                   ActivePage(hdrCurrentTab, pages))
               /\ UNCHANGED panicked

\* Skeleton.Update(msg) for a message a Listen command returned: the type
\* switch on what came out of the channel.  case AddPageMsg calls
\* msg.Page.Init() first; case HeaderSizeMsg stores the field and returns
\* without updateSkeleton and without Listen.
UpdateBus(m) ==
    /\ ~panicked
    /\ started
    /\ BagIn(m, inflight)
    /\ inflight' = inflight (-) One(m)
    /\ IF m.type = "HeaderSizeMsg"
       THEN /\ currentTab' = hdrCurrentTab
            /\ termSizeNotEnoughToHandleHeaders' = TRUE
            /\ last' = Record("UpdateBus", "none")
            /\ UNCHANGED <<listening, armed, panicked, pageInits>>
       ELSE /\ pageInits' = IF m.type = "AddPageMsg" THEN pageInits \cup {m.key}
                                                    ELSE pageInits
            /\ ListenAgain("UpdateBus")
            /\ UNCHANGED termSizeNotEnoughToHandleHeaders
    /\ UNCHANGED <<headers, pages, hdrCurrentTab, lockTabs, lockedTabs, rcv,
                   got, released, started, termReady, vpWidth, vpHeight,
                   termSizeNotEnoughToHandleWidgets, leftTabPadding, rightTabPadding,
                   titleLength, sizeCmds>>
    /\ UNCHANGED extras

\* Skeleton.Update(msg) for a message of a type Update does not know that
\* did not come through the channel (a page command's result, IAMActivePage)
UpdateOther ==
    /\ ~panicked
    /\ started
    /\ ListenAgain("UpdateOther")
    /\ UNCHANGED <<headers, pages, hdrCurrentTab, lockTabs, lockedTabs, rcv,
                   got, released, inflight, started>>
    /\ UNCHANGED display

\* Skeleton.Update(IAMActivePage{}) for a message an IAMActivePageCmd
\* returned: the message carries no key; the default branch passes it to
\* s.pages[s.currentTab] and calls Listen.  k is the page that was made
\* active when the command was created.
UpdateIAMActivePage(k) ==
    /\ ~panicked
    /\ started
    /\ BagIn(k, iam)
    /\ iam' = iam (-) SetToBag({k})
    /\ ListenAgain("IAMActivePage")
    /\ UNCHANGED <<headers, pages, hdrCurrentTab, lockTabs, lockedTabs, rcv,
                   got, released, inflight, started>>
    /\ UNCHANGED <<screen, titleLength, pageInits, bar, threads>>

\* ------------------------------------------- the guard, lock by lock

\* What the steps of the loop thread and of the command leave alone
GuardFrame ==
    /\ UNCHANGED <<headers, pages, hdrCurrentTab, lockTabs, lockedTabs>>
    /\ UNCHANGED <<screen, titleLength, bar, iam, bgPc>>

\* Skeleton.Init up to its call of s.updater.Listen()
LoopInit ==
    /\ ~panicked
    /\ ~started
    /\ loopPc = "idle"
    /\ IF Len(pages) = 0
       THEN /\ panicked' = TRUE
            /\ UNCHANGED <<started, loopPc>>
       ELSE /\ started' = TRUE
            /\ loopPc' = "wantListen"
            /\ UNCHANGED panicked
    /\ last' = Record("Init", "")
    /\ UNCHANGED <<currentTab, rcv, listening, pipeline, pageInits, mu>>
    /\ GuardFrame

\* Skeleton.Update(msg), for a message a command returned, up to its call
\* of s.updater.Listen()
LoopUpdate(m) ==
    /\ ~panicked
    /\ started
    /\ loopPc = "idle"
    /\ BagIn(m, inflight)
    /\ inflight' = inflight (-) One(m)
    /\ currentTab' = hdrCurrentTab
    /\ pageInits' = IF m.type = "AddPageMsg" THEN pageInits \cup {m.key} ELSE pageInits
    /\ IF hdrCurrentTab >= 0 /\ hdrCurrentTab < Len(pages)
       THEN loopPc' = "wantListen" /\ UNCHANGED panicked
       ELSE panicked' = TRUE /\ UNCHANGED loopPc
    /\ last' = Record("UpdateBus", "")
    /\ UNCHANGED <<rcv, listening, armed, got, released, started, mu>>
    /\ GuardFrame

\* Skeleton.Update(msg), for a message of another type (default branch), up
\* to its call of s.updater.Listen()
LoopOther ==
    /\ ~panicked
    /\ started
    /\ loopPc = "idle"
    /\ currentTab' = hdrCurrentTab
    /\ IF hdrCurrentTab >= 0 /\ hdrCurrentTab < Len(pages)
       THEN loopPc' = "wantListen" /\ UNCHANGED panicked
       ELSE panicked' = TRUE /\ UNCHANGED loopPc
    /\ last' = Record("UpdateOther", "")
    /\ UNCHANGED <<rcv, listening, pipeline, started, pageInits, mu>>
    /\ GuardFrame

\* Listen: u.mu.Lock()
ListenLock ==
    /\ ~panicked
    /\ loopPc = "wantListen"
    /\ mu = "free"
    /\ mu' = "loop"
    /\ loopPc' = "inListen"
    /\ last' = Record("ListenLock", "")
    /\ UNCHANGED <<currentTab, rcv, listening, pipeline, started, panicked, pageInits>>
    /\ GuardFrame

\* Listen: the check of u.listening, u.listening = true, the return of nil
\* or of the command, and the deferred u.mu.Unlock()
ListenUnlock ==
    /\ ~panicked
    /\ loopPc = "inListen"
    /\ LET r == Listen(listening, armed)
       IN /\ listening' = r.listening
          /\ armed' = r.armed
          /\ last' = Record("Listen", IF r.cmd THEN "cmd" ELSE "nil")
    /\ mu' = "free"
    /\ loopPc' = "idle"
    /\ UNCHANGED <<currentTab, rcv, got, released, inflight, started, panicked,
                   pageInits>>
    /\ GuardFrame

\* A command that takes the mutex before it receives.
CmdLock_BeforeReceive ==
    /\ ~panicked
    /\ armed > 0
    /\ mu = "free"
    /\ mu' = "cmd"
    /\ last' = Record("CmdLock", "")
    /\ UNCHANGED <<currentTab, rcv, listening, pipeline, started, panicked,
                   pageInits, loopPc>>
    /\ GuardFrame

\* The command, after msg := <-u.rcv: u.mu.Lock()
CmdLock ==
    /\ ~panicked
    /\ got # EmptyBag
    /\ mu = "free"
    /\ mu' = "cmd"
    /\ last' = Record("CmdLock", "")
    /\ UNCHANGED <<currentTab, rcv, listening, pipeline, started, panicked,
                   pageInits, loopPc>>
    /\ GuardFrame

\* The command: u.listening = false; u.mu.Unlock()
CmdUnlock(m) ==
    /\ ~panicked
    /\ mu = "cmd"
    /\ BagIn(m, got)
    /\ got' = got (-) One(m)
    /\ released' = released (+) One(m)
    /\ listening' = FALSE
    /\ mu' = "free"
    /\ last' = Record("CmdRelease", "")
    /\ UNCHANGED <<currentTab, rcv, armed, inflight, started, panicked, pageInits,
                   loopPc>>
    /\ GuardFrame

\* ------------------------------------------------------------- the layout

\* header.UpdateCommonHeader's loop: the title of every header with the key
hdr_UpdateCommonHeader(hs, key, title) ==
    [i \in 1..Len(hs) |-> IF hs[i].key = key THEN [key |-> key, title |-> title]
                                              ELSE hs[i]]

\* UpdatePageTitle(key, title): UpdateCommonHeader, which recomputes the
\* title length, drops the command and signals, then s.updater.Update()
UpdatePageTitle(key, title) ==
    /\ ~panicked
    /\ headers' = hdr_UpdateCommonHeader(headers, key, title)
    /\ titleLength' = calculateTitleLength(headers', leftTabPadding, rightTabPadding)
    /\ rcv' = SendN(rcv, UpdateMsgInstance, 2)
    /\ last' = Record("UpdatePageTitle", "")
    /\ UNCHANGED <<pages, currentTab, hdrCurrentTab, lockTabs, lockedTabs,
                   listening, pipeline, started, panicked, screen, pageInits>>
    /\ UNCHANGED extras

\* SetTabLeftPadding(padding): header.SetLeftPadding, which recomputes the
\* title length and drops the command, then s.updater.Update()
SetTabLeftPadding(padding) ==
    /\ ~panicked
    /\ leftTabPadding' = padding
    /\ titleLength' = calculateTitleLength(headers, padding, rightTabPadding)
    /\ rcv' = Send(rcv, UpdateMsgInstance)
    /\ last' = Record("SetTabLeftPadding", "")
    /\ UNCHANGED <<registry, listening, pipeline, started, panicked, termReady,
                   vpWidth, vpHeight, termSizeNotEnoughToHandleHeaders,
                   termSizeNotEnoughToHandleWidgets, rightTabPadding, sizeCmds,
                   pageInits>>
    /\ UNCHANGED extras

\* SetTabRightPadding(padding)
SetTabRightPadding(padding) ==
    /\ ~panicked
    /\ rightTabPadding' = padding
    /\ titleLength' = calculateTitleLength(headers, leftTabPadding, padding)
    /\ rcv' = Send(rcv, UpdateMsgInstance)
    /\ last' = Record("SetTabRightPadding", "")
    /\ UNCHANGED <<registry, listening, pipeline, started, panicked, termReady,
                   vpWidth, vpHeight, termSizeNotEnoughToHandleHeaders,
                   termSizeNotEnoughToHandleWidgets, leftTabPadding, sizeCmds,
                   pageInits>>
    /\ UNCHANGED extras

\* A resize that makes the terminal ready whatever the size.
Ready_AnySize(ready, width, height) == TRUE

\* Update(tea.WindowSizeMsg): if !s.termReady { if msg.Width > 0 &&
\* msg.Height > 0 { s.termReady = true } }
Ready(ready, width, height) == ready \/ (width > 0 /\ height > 0)

\* Skeleton.Update(tea.WindowSizeMsg): the resynchronisation, termReady, the
\* viewport, then updateSkeleton: header.Update recomputes the title length
\* and returns the HeaderSizeMsg command, and s.pages[s.currentTab] is
\* indexed.  No Listen.
UpdateWindowSize(width, height) ==
    /\ ~panicked
    /\ started
    /\ BagCardinality(sizeCmds) < MaxSizeCmds
    /\ currentTab' = hdrCurrentTab
    /\ termReady' = Ready(termReady, width, height)
    /\ vpWidth' = width
    /\ vpHeight' = height
    /\ titleLength' = calculateTitleLength(headers, leftTabPadding, rightTabPadding)
    /\ IF ~(hdrCurrentTab >= 0 /\ hdrCurrentTab < Len(pages))
       THEN /\ panicked' = TRUE
            /\ UNCHANGED sizeCmds
       ELSE /\ sizeCmds' = sizeCmds (+) One(HeaderSizeMsg(width, titleLength'))
            /\ UNCHANGED panicked
    /\ last' = RecordTo("UpdateWindowSize", "",
                        IF hdrCurrentTab >= 0 /\ hdrCurrentTab < Len(pages)
                        THEN ActivePage(hdrCurrentTab, pages) ELSE NoKey)
    /\ UNCHANGED <<headers, pages, hdrCurrentTab, lockTabs, lockedTabs, rcv,
                   listening, pipeline, started, termSizeNotEnoughToHandleHeaders,
                   termSizeNotEnoughToHandleWidgets, leftTabPadding, rightTabPadding,
                   pageInits>>
    /\ UNCHANGED extras

\* Skeleton.Update(HeaderSizeMsg) for a message header.Update's command
\* returned
UpdateHeaderSize(b) ==
    /\ ~panicked
    /\ started
    /\ BagIn(b, sizeCmds)
    /\ sizeCmds' = sizeCmds (-) One(b)
    /\ currentTab' = hdrCurrentTab
    /\ termSizeNotEnoughToHandleHeaders' = b
    /\ last' = Record("UpdateHeaderSize", "")
    /\ UNCHANGED <<headers, pages, hdrCurrentTab, lockTabs, lockedTabs, rcv,
                   listening, pipeline, started, panicked, termReady, vpWidth,
                   vpHeight, termSizeNotEnoughToHandleWidgets, leftTabPadding,
                   rightTabPadding, titleLength, pageInits>>
    /\ UNCHANGED extras

\* Skeleton.Update(WidgetSizeMsg), whatever the widget bar reports
UpdateWidgetSize(b) ==
    /\ ~panicked
    /\ started
    /\ currentTab' = hdrCurrentTab
    /\ termSizeNotEnoughToHandleWidgets' = b
    /\ last' = Record("UpdateWidgetSize", "")
    /\ UNCHANGED <<headers, pages, hdrCurrentTab, lockTabs, lockedTabs, rcv,
                   listening, pipeline, started, panicked, termReady, vpWidth,
                   vpHeight, termSizeNotEnoughToHandleHeaders, leftTabPadding,
                   rightTabPadding, titleLength, sizeCmds, pageInits>>
    /\ UNCHANGED extras

\* SetTerminalViewportWidth(width): vp.Width = width, nothing else
SetTerminalViewportWidth(width) ==
    /\ ~panicked
    /\ vpWidth' = width
    /\ last' = Record("SetTerminalViewportWidth", "")
    /\ UNCHANGED <<registry, rcv, listening, pipeline, started, panicked>>
    /\ UNCHANGED <<termReady, vpHeight, termSizeNotEnoughToHandleHeaders,
                   termSizeNotEnoughToHandleWidgets, leftTabPadding, rightTabPadding,
                   sizeCmds, titleLength, pageInits, extras>>

\* SetTerminalViewportHeight(height): vp.Height = height, nothing else
SetTerminalViewportHeight(height) ==
    /\ ~panicked
    /\ vpHeight' = height
    /\ last' = Record("SetTerminalViewportHeight", "")
    /\ UNCHANGED <<registry, rcv, listening, pipeline, started, panicked>>
    /\ UNCHANGED <<termReady, vpWidth, termSizeNotEnoughToHandleHeaders,
                   termSizeNotEnoughToHandleWidgets, leftTabPadding, rightTabPadding,
                   sizeCmds, titleLength, pageInits, extras>>

\* ----------------------------------------------------------- the widgets

\* widget.GetWidget(key): the index of the entry with the key, 0 for nil
GetWidget(ws, key) ==
    IF \E i \in 1..Len(ws) : ws[i].key = key
    THEN CHOOSE i \in 1..Len(ws) : ws[i].key = key
    ELSE 0

RECURSIVE deleteWidget(_, _)
\* widget.deleteWidget(key): the entries with another key, in their order
deleteWidget(ws, key) ==
    IF ws = <<>> THEN <<>>
    ELSE IF Head(ws).key = key THEN deleteWidget(Tail(ws), key)
         ELSE <<Head(ws)>> \o deleteWidget(Tail(ws), key)

\* An update that moves the entry to the end of the bar.
updateWidgetContent_MoveToEnd(ws, key, value) ==
    deleteWidget(ws, key) \o <<[key |-> key, value |-> value]>>

\* widget.updateWidgetContent(key, value): the value of the entry with the
\* key, in place
updateWidgetContent(ws, key, value) ==
    [i \in 1..Len(ws) |-> IF ws[i].key = key THEN [key |-> key, value |-> value]
                                             ELSE ws[i]]

\* widget.addNewWidget(key, value): an entry created at the end on the first
\* write of the key, the entry written in place when there is one
addNewWidget(ws, key, value) ==
    IF GetWidget(ws, key) = 0 THEN Append(ws, [key |-> key, value |-> value])
    ELSE updateWidgetContent(ws, key, value)

\* What a widget mutator leaves alone
WidgetFrame ==
    /\ UNCHANGED <<registry, listening, pipeline, started, panicked>>
    /\ UNCHANGED <<screen, titleLength, pageInits, borderColor, iam>>

\* AddWidget(key, value): addNewWidget, then s.updater.Update()
AddWidget(key, value) ==
    /\ ~panicked
    /\ widgets' = addNewWidget(widgets, key, value)
    /\ rcv' = Send(rcv, UpdateMsgInstance)
    /\ last' = Record("AddWidget", "")
    /\ WidgetFrame
    /\ UNCHANGED threads

\* The body of UpdateWidgetValue(key, value): AddWidget when GetWidget
\* returns nil, then updateWidgetContent and s.updater.Update()
UpdateWidgetValueBody(key, value) ==
    /\ ~panicked
    /\ LET missing == GetWidget(widgets, key) = 0
           ws == IF missing THEN addNewWidget(widgets, key, value) ELSE widgets
       IN /\ widgets' = updateWidgetContent(ws, key, value)
          /\ rcv' = SendN(rcv, UpdateMsgInstance, IF missing THEN 2 ELSE 1)
          /\ last' = Record("UpdateWidgetValue", IF missing THEN "added" ELSE "updated")
    /\ WidgetFrame

\* UpdateWidgetValue(key, value), the call as one step
UpdateWidgetValue(key, value) ==
    /\ UpdateWidgetValueBody(key, value)
    /\ UNCHANGED threads

\* DeleteWidget(key): deleteWidget, then s.updater.Update()
DeleteWidget(key) ==
    /\ ~panicked
    /\ widgets' = deleteWidget(widgets, key)
    /\ rcv' = Send(rcv, UpdateMsgInstance)
    /\ last' = Record("DeleteWidget", "")
    /\ WidgetFrame
    /\ UNCHANGED threads

\* DeleteAllWidgets(): widget.DeleteAllWidgets, then s.updater.Update()
DeleteAllWidgets ==
    /\ ~panicked
    /\ widgets' = <<>>
    /\ rcv' = Send(rcv, UpdateMsgInstance)
    /\ last' = Record("DeleteAllWidgets", "")
    /\ WidgetFrame
    /\ UNCHANGED threads

\* A SetBorderColor that does not signal.
SetBorderColor_Silent(color) ==
    /\ ~panicked
    /\ borderColor' = color
    /\ last' = Record("SetBorderColor", "")
    /\ UNCHANGED <<registry, rcv, listening, pipeline, started, panicked>>
    /\ UNCHANGED <<screen, titleLength, pageInits, widgets, iam, threads>>

\* SetBorderColor(color): the colour of the header, of the widget bar and of
\* the frame, then s.updater.Update()
SetBorderColor(color) ==
    /\ ~panicked
    /\ borderColor' = color
    /\ rcv' = Send(rcv, UpdateMsgInstance)
    /\ last' = Record("SetBorderColor", "")
    /\ UNCHANGED <<registry, listening, pipeline, started, panicked>>
    /\ UNCHANGED <<screen, titleLength, pageInits, widgets, iam, threads>>

\* A View that looks at the widgets flag before the header flag.
View_WidgetsFirst ==
    IF ~termReady THEN "setting up terminal..."
    ELSE IF ~termSizeNotEnoughToHandleWidgets
    THEN "terminal size is not enough to show widgets"
    ELSE IF ~termSizeNotEnoughToHandleHeaders
    THEN "terminal size is not enough to show headers"
    ELSE IF ~(currentTab >= 0 /\ currentTab < Len(pages)) THEN "panic"
    ELSE "layout"

\* Skeleton.View: which of its four results it returns ("panic" when
\* s.pages[s.currentTab] is out of range)
View ==
    IF ~termReady THEN "setting up terminal..."
    ELSE IF ~termSizeNotEnoughToHandleHeaders
    THEN "terminal size is not enough to show headers"
    ELSE IF ~termSizeNotEnoughToHandleWidgets
    THEN "terminal size is not enough to show widgets"
    ELSE IF ~(currentTab >= 0 /\ currentTab < Len(pages)) THEN "panic"
    ELSE "layout"

\* lipgloss.Height(str): strings.Count(str, "\n") + 1, the number of lines
Height(body) == Len(body)

\* strings.Repeat("\n", n) appended to a text: n more lines, all empty
Repeat(n) == [i \in 1..n |-> ""]

\* Skeleton.View: bodyHeight := s.viewport.Height - 5, and one less when
\* len(s.widget.widgets) > 0
bodyHeight == vpHeight - 5 - (IF Len(widgets) > 0 THEN 1 ELSE 0)

\* A padding that leaves no row to the widget bar.
PaddedBody_NoWidgetRow(body) ==
    IF Height(body) < vpHeight - 5
    THEN body \o Repeat(vpHeight - 5 - Height(body))
    ELSE body

\* Skeleton.View: if lipgloss.Height(body) < bodyHeight { body +=
\* strings.Repeat("\n", bodyHeight-lipgloss.Height(body)) }
PaddedBody(body) ==
    IF Height(body) < bodyHeight
    THEN body \o Repeat(bodyHeight - Height(body))
    ELSE body

\* ------------------------------------------------- the two threads

\* What entering and leaving a call leaves alone
CallFrame ==
    /\ UNCHANGED <<registry, rcv, listening, pipeline, started, panicked>>
    /\ UNCHANGED <<screen, titleLength, pageInits, bar, iam, mu>>

\* The host calls View on the loop thread: past the three placeholders it
\* reads s.pages[s.currentTab] and len(s.widget.widgets) and renders the
\* header and the widget bar
ViewEnter ==
    /\ ~panicked
    /\ started
    /\ loopPc = "idle"
    /\ View = "layout"
    /\ loopPc' = "View"
    /\ last' = Record("ViewEnter", "")
    /\ UNCHANGED bgPc
    /\ CallFrame

\* View returns what it rendered from the widgets it read
ViewReturn ==
    /\ ~panicked
    /\ loopPc = "View"
    /\ loopPc' = "idle"
    /\ last' = Record("View", IF widgets = <<>> THEN "no widgets" ELSE widgets[1].value)
    /\ UNCHANGED bgPc
    /\ CallFrame

\* The goroutine the application starts next to the program, as in the
\* examples: go func() { for { ...; s.UpdateWidgetValue("time", ...) } }().
\* It enters UpdateWidgetValue, which runs on the caller's thread.
BgEnter ==
    /\ ~panicked
    /\ bgPc = "idle"
    /\ bgPc' = "UpdateWidgetValue"
    /\ last' = Record("BgEnter", "")
    /\ UNCHANGED loopPc
    /\ CallFrame

\* The goroutine's UpdateWidgetValue(key, value) reads and writes s.widget,
\* signals and returns
BgUpdateWidgetValue(key, value) ==
    /\ bgPc = "UpdateWidgetValue"
    /\ UpdateWidgetValueBody(key, value)
    /\ bgPc' = "idle"
    /\ UNCHANGED <<mu, loopPc>>

\* ------------------------------------------------------- specifications

Init ==
    /\ headers = <<>>
    /\ pages = <<>>
    /\ currentTab = 0
    /\ hdrCurrentTab = 0
    /\ lockTabs = FALSE
    /\ lockedTabs = {}
    /\ rcv = <<>>
    /\ listening = FALSE
    /\ armed = 0
    /\ got = EmptyBag
    /\ released = EmptyBag
    /\ inflight = EmptyBag
    /\ started = FALSE
    /\ panicked = FALSE
    /\ last = [op |-> "new", from |-> 0, ret |-> "", page |-> NoKey]
    /\ termReady = FALSE
    /\ vpWidth = DefaultWidth
    /\ vpHeight = DefaultHeight
    /\ termSizeNotEnoughToHandleHeaders = FALSE
    /\ termSizeNotEnoughToHandleWidgets = FALSE
    /\ leftTabPadding = DefaultPadding
    /\ rightTabPadding = DefaultPadding
    /\ titleLength = 0
    /\ sizeCmds = EmptyBag
    /\ pageInits = {}
    /\ widgets = <<>>
    /\ borderColor = DefaultBorderColor
    /\ iam = EmptyBag
    /\ mu = "free"
    /\ loopPc = "idle"
    /\ bgPc = "idle"

\* The tab registry: the public mutators, from the program's set-up code or
\* from a page, and the navigation keys of the running loop.
Next ==
    \/ \E k \in Keys : AddPage(k, DefaultTitle, k)
    \/ \E k \in Keys : DeletePage(k)
    \/ \E k \in Keys : SetActivePage(k)
    \/ LockTabs
    \/ UnlockTabs
    \/ \E k \in Keys : LockTab(k)
    \/ \E k \in Keys : UnlockTab(k)
    \/ LockTabsToTheRight
    \/ LockTabsToTheLeft
    \/ SkeletonInit
    \/ UpdateKey("left")
    \/ UpdateKey("right")

Spec == Init /\ [][Next]_vars

\* The navigation keys on a registry whose tabs are added, deleted, locked
\* and unlocked one by one or all at once.
NextKeys ==
    \/ \E k \in Keys : AddPage(k, DefaultTitle, k)
    \/ \E k \in Keys : DeletePage(k)
    \/ LockTabs
    \/ UnlockTabs
    \/ \E k \in Keys : LockTab(k)
    \/ \E k \in Keys : UnlockTab(k)
    \/ SkeletonInit
    \/ UpdateKey("left")
    \/ UpdateKey("right")

SpecKeys == Init /\ [][NextKeys]_vars

\* The page mutators alone, on a registry with global and per-tab locks.
NextPages ==
    \/ \E k \in Keys : AddPage(k, DefaultTitle, k)
    \/ \E k \in Keys : DeletePage(k)
    \/ \E k \in Keys : SetActivePage(k)
    \/ LockTabs
    \/ UnlockTabs
    \/ \E k \in Keys : LockTab(k)

SpecPages == Init /\ [][NextPages]_vars

\* The layout: tabs and titles that come and go, paddings, resizes and the
\* size messages of the running loop.
NextView ==
    \/ \E k \in ViewKeys, t \in Titles : AddPage(k, t, k)
    \/ \E k \in ViewKeys, t \in Titles : UpdatePageTitle(k, t)
    \/ \E k \in ViewKeys : DeletePage(k)
    \/ \E k \in ViewKeys : SetActivePage(k)
    \/ \E k \in ViewKeys : LockTab(k)
    \/ \E k \in ViewKeys : UnlockTab(k)
    \/ \E p \in Paddings : SetTabLeftPadding(p)
    \/ \E p \in Paddings : SetTabRightPadding(p)
    \/ SkeletonInit
    \/ \E wh \in WindowSizes : UpdateWindowSize(wh[1], wh[2])
    \/ \E b \in BagToSet(sizeCmds) : UpdateHeaderSize(b)
    \/ \E b \in BOOLEAN : UpdateWidgetSize(b)

SpecView == Init /\ [][NextView]_vars

\* The viewport: resizes of any size, the size messages, the viewport
\* setters, and a tab registry that changes meanwhile.
NextResize ==
    \/ \E k \in BusKeys : AddPage(k, DefaultTitle, k)
    \/ \E k \in BusKeys : SetActivePage(k)
    \/ LockTabs
    \/ UnlockTabs
    \/ SkeletonInit
    \/ \E wh \in ResizeSizes : UpdateWindowSize(wh[1], wh[2])
    \/ \E b \in BagToSet(sizeCmds) : UpdateHeaderSize(b)
    \/ \E b \in BOOLEAN : UpdateWidgetSize(b)
    \/ \E w \in Dimensions : SetTerminalViewportWidth(w)
    \/ \E h \in Dimensions : SetTerminalViewportHeight(h)

SpecResize == Init /\ [][NextResize]_vars

\* Navigation: the keys, the IAMActivePage messages they cause, the other
\* messages Update passes to the active page, and a registry that changes
\* meanwhile.
NextNav ==
    \/ \E k \in ViewKeys : AddPage(k, DefaultTitle, k)
    \/ \E k \in ViewKeys : DeletePage(k)
    \/ \E k \in ViewKeys : SetActivePage(k)
    \/ \E k \in ViewKeys : LockTab(k)
    \/ SkeletonInit
    \/ UpdateKeyCmd("left")
    \/ UpdateKeyCmd("right")
    \/ \E k \in BagToSet(iam) : UpdateIAMActivePage(k)

SpecNav == Init /\ [][NextNav]_vars

\* Forwarding: every kind of message Update passes on, with several pages
\* and an active tab that moves.
NextForward ==
    \/ \E k \in TwoKeys : AddPage(k, DefaultTitle, k)
    \/ \E k \in TwoKeys : SetActivePage(k)
    \/ SkeletonInit
    \/ UpdateKey("left")
    \/ UpdateKey("right")
    \/ UpdateOther
    \/ UpdateWindowSize(DefaultWidth, DefaultHeight)
    \/ CmdReceive
    \/ \E m \in BagToSet(got) : CmdRelease(m)
    \/ \E m \in BagToSet(released) : CmdReturn(m)
    \/ \E m \in BagToSet(inflight) : UpdateBus(m)

SpecForward == Init /\ [][NextForward]_vars

\* The widget bar: writes, removals, clears and its border colour.
NextWidgets ==
    \/ \E c \in Colors : SetBorderColor(c)
    \/ \E k \in WidgetKeys, v \in WidgetValues : AddWidget(k, v)
    \/ \E k \in WidgetKeys, v \in WidgetValues : UpdateWidgetValue(k, v)
    \/ \E k \in WidgetKeys : DeleteWidget(k)
    \/ DeleteAllWidgets

SpecWidgets == Init /\ [][NextWidgets]_vars

\* The public mutators on two tabs and one widget, and a running loop whose
\* Listen command takes a message out of the channel they signal on.
NextMutators ==
    \/ \E k \in TwoKeys : AddPage(k, DefaultTitle, k)
    \/ UpdatePageTitle(KeyNames[1], "Logs")
    \/ \E k \in TwoKeys : DeletePage(k)
    \/ \E k \in TwoKeys : SetActivePage(k)
    \/ LockTabs
    \/ UnlockTabs
    \/ LockTab(KeyNames[2])
    \/ UnlockTab(KeyNames[2])
    \/ LockTabsToTheRight
    \/ LockTabsToTheLeft
    \/ AddWidget(WidgetNames[1], "10:00")
    \/ UpdateWidgetValue(WidgetNames[1], "10:01")
    \/ DeleteWidget(WidgetNames[1])
    \/ DeleteAllWidgets
    \/ SetBorderColor("214")
    \/ SetTabLeftPadding(0)
    \/ SetTabRightPadding(0)
    \/ SkeletonInit
    \/ CmdReceive

SpecMutators == Init /\ [][NextMutators]_vars

\* The guard lock by lock: the loop thread calling Listen from Init and
\* from Update, the command, and producers.
NextGuard ==
    \/ \E k \in BusKeys : AddPage(k, DefaultTitle, k)
    \/ TriggerUpdate
    \/ LoopInit
    \/ \E m \in BagToSet(inflight) : LoopUpdate(m)
    \/ LoopOther
    \/ ListenLock
    \/ ListenUnlock
    \/ CmdReceive
    \/ CmdLock
    \/ \E m \in BagToSet(got) : CmdUnlock(m)
    \/ \E m \in BagToSet(released) : CmdReturn(m)

SpecGuard == Init /\ [][NextGuard]_vars

\* The loop thread, which handles the size messages and renders, and the
\* application's goroutine, which writes a widget every second.
NextThreads ==
    \/ \E k \in BusKeys : bgPc = "idle" /\ ~started /\ AddPage(k, DefaultTitle, k)
    \/ loopPc = "idle" /\ SkeletonInit
    \/ loopPc = "idle" /\ UpdateWindowSize(DefaultWidth, DefaultHeight)
    \/ \E b \in BagToSet(sizeCmds) : loopPc = "idle" /\ UpdateHeaderSize(b)
    \/ loopPc = "idle" /\ UpdateWidgetSize(TRUE)
    \/ ViewEnter
    \/ ViewReturn
    \/ BgEnter
    \/ \E v \in WidgetValues : BgUpdateWidgetValue(WidgetNames[1], v)

SpecThreads == Init /\ [][NextThreads]_vars

\* The locks of one side: tabs that come and go, an active tab that moves, locks
\* that are set side by side and taken away one by one.
NextSides ==
    \/ \E k \in Keys : AddPage(k, DefaultTitle, k)
    \/ \E k \in Keys : DeletePage(k)
    \/ \E k \in Keys : SetActivePage(k)
    \/ \E k \in Keys : UnlockTab(k)
    \/ LockTabsToTheRight
    \/ LockTabsToTheLeft

SpecSides == Init /\ [][NextSides]_vars

\* The header's fit: two tabs with titles of two lengths, both paddings,
\* resizes and the size messages they cause.
NextHeaderSize ==
    \/ \E k \in TwoKeys, t \in Titles : AddPage(k, t, k)
    \/ \E p \in Paddings : SetTabLeftPadding(p)
    \/ \E p \in Paddings : SetTabRightPadding(p)
    \/ SkeletonInit
    \/ \E wh \in WindowSizes : UpdateWindowSize(wh[1], wh[2])
    \/ \E b \in BagToSet(sizeCmds) : UpdateHeaderSize(b)

SpecHeaderSize == Init /\ [][NextHeaderSize]_vars

\* The composed layout: one tab, terminals of four heights and a widget bar
\* that is empty or not.
NextLayout ==
    \/ AddPage(KeyNames[1], DefaultTitle, KeyNames[1])
    \/ SkeletonInit
    \/ \E wh \in LayoutSizes : UpdateWindowSize(wh[1], wh[2])
    \/ \E b \in BagToSet(sizeCmds) : UpdateHeaderSize(b)
    \/ \E b \in BOOLEAN : UpdateWidgetSize(b)
    \/ \E k \in WidgetKeys : AddWidget(k, "10:00")
    \/ DeleteAllWidgets

SpecLayout == Init /\ [][NextLayout]_vars

\* The refresh bus: producers on any goroutine, the Listen commands the host
\* runs, and the loop handling what they return.
NextBus ==
    \/ \E k \in BusKeys : AddPage(k, DefaultTitle, k)
    \/ SkeletonInit
    \/ TriggerUpdate
    \/ \E m \in Payloads : TriggerUpdateWithMsg(m)
    \/ CmdReceive
    \/ \E m \in BagToSet(got) : CmdRelease(m)
    \/ \E m \in BagToSet(released) : CmdReturn(m)
    \/ \E m \in BagToSet(inflight) : UpdateBus(m)
    \/ UpdateOther

SpecBus == Init /\ [][NextBus]_vars

\* The same bus, fed payloads of both kinds.
NextLoop ==
    \/ \E k \in BusKeys : AddPage(k, DefaultTitle, k)
    \/ SkeletonInit
    \/ TriggerUpdate
    \/ \E m \in LoopPayloads : TriggerUpdateWithMsg(m)
    \/ CmdReceive
    \/ \E m \in BagToSet(got) : CmdRelease(m)
    \/ \E m \in BagToSet(released) : CmdReturn(m)
    \/ \E m \in BagToSet(inflight) : UpdateBus(m)
    \/ UpdateOther

SpecLoop == Init /\ [][NextLoop]_vars

\* The bus under fair scheduling: the host runs every armed command to its
\* end and passes what it returns to Update.  Producers and messages from
\* elsewhere are under no obligation.
SpecLoopFair ==
    /\ SpecLoop
    /\ WF_vars(SkeletonInit)
    /\ WF_vars(CmdReceive)
    /\ WF_vars(\E m \in BagToSet(got) : CmdRelease(m))
    /\ WF_vars(\E m \in BagToSet(released) : CmdReturn(m))
    /\ WF_vars(\E m \in BagToSet(inflight) : UpdateBus(m))

\* ---------------------------------------------------------------- claims

Max(S) == CHOOSE x \in S : \A y \in S : y <= x

Min(S) == CHOOSE x \in S : \A y \in S : x <= y

Navigated == last.op \in {"left", "right"}

\* The indices of the tabs without an individual lock
UnlockedTabs == {i \in 0..(Len(headers) - 1) : ~IsTabLocked(headers[i + 1].key)}

\* The tabs a key pressed at index `from` may move to
Candidates(op, from) ==
    IF op = "left" THEN {i \in UnlockedTabs : i < from} ELSE {i \in UnlockedTabs : i > from}

Outstanding == armed + BagCardinality(got)

\* C1: once a tab has been added, no AddPage or DeletePage (nor any other
\* operation) brings the number of tabs or of pages below 1.
C1_TabFloor ==
    [][Len(headers) >= 1 => (Len(headers') >= 1 /\ Len(pages') >= 1)]_vars

\* C1: DeletePage was called with one tab left and refused.
C1_Witness ==
    /\ last.op = "DeletePage"
    /\ last.ret = "refused"
    /\ Len(headers) = 1
    /\ Len(pages) = 1

\* C2: on a registry with at least one tab the active index of the Skeleton
\* and of the header is within 0..Len-1 and nothing has panicked.
C2_ActiveIndexInRange ==
    Len(headers) >= 1 =>
        /\ currentTab >= 0 /\ currentTab < Len(headers)
        /\ hdrCurrentTab >= 0 /\ hdrCurrentTab < Len(headers)
        /\ ~panicked

\* C3: with the global lock unset, a navigation key moves the active index to
\* the nearest tab on that side that is not locked, skipping locked ones, and
\* leaves it where it was when there is none; it never wraps.
C3_NavigationSkipsLocked ==
    (Navigated /\ ~lockTabs) =>
        LET cand == Candidates(last.op, last.from)
        IN /\ currentTab = (IF cand = {} THEN last.from
                            ELSE IF last.op = "left" THEN Max(cand) ELSE Min(cand))
           /\ hdrCurrentTab = currentTab

\* C3: a left key has moved the active index past a locked tab.
C3_Witness ==
    /\ last.op = "left"
    /\ ~lockTabs
    /\ ~panicked
    /\ currentTab < last.from - 1
    /\ IsTabLocked(headers[last.from].key)

\* C4: while the global lock is set, a navigation key leaves the active index
\* where it was and asks for no follow-up event.
C4_GlobalLockBlocksNavigation ==
    (Navigated /\ lockTabs) =>
        /\ currentTab = last.from
        /\ hdrCurrentTab = last.from
        /\ last.ret = ""

\* C4: a right key was pressed under the global lock with the tab to the right
\* not individually locked (added or unlocked after LockTabs).
C4_Witness ==
    /\ last.op = "right"
    /\ lockTabs
    /\ ~panicked
    /\ currentTab + 1 < Len(headers)
    /\ ~IsTabLocked(headers[currentTab + 2].key)

\* C5: whenever IsTabsLocked() is true, IsTabLocked(k) is true for every
\* existing tab k.
C5_GlobalLockImpliesTabLocked ==
    lockTabs => \A i \in 1..Len(headers) : IsTabLocked(headers[i].key)

\* C6: after UnlockTabs() the global flag is false and IsTabLocked(k) is false
\* for every key, whether a tab has it or not.
C6_UnlockTabsClearsAll ==
    last.op = "UnlockTabs" => (~lockTabs /\ \A k \in Keys : ~IsTabLocked(k))

\* C6: UnlockTabs was called while a key without a tab was locked.
C6_Witness ==
    /\ last.op = "UnlockTabs"
    /\ last.ret = "cleared-absent"

\* C7: with the global flag unset and every tab but the current one locked, a
\* navigation key leaves the active index unchanged; with exactly one other
\* tab j unlocked, a key in the direction of j makes j the active tab.
C7_LockedOthers ==
    (Navigated /\ ~lockTabs /\ last.from >= 0 /\ last.from < Len(headers)) =>
        LET others == UnlockedTabs \ {last.from}
        IN /\ others = {} => currentTab = last.from
           /\ \A j \in others :
                (others = {j} /\ (IF last.op = "left" THEN j < last.from ELSE j > last.from))
                    => currentTab = j

\* C7: a right key has moved the active index two tabs to the right, to the
\* only unlocked tab other than the one it left.
C7_Witness ==
    /\ last.op = "right"
    /\ ~lockTabs
    /\ ~panicked
    /\ currentTab = last.from + 2
    /\ UnlockedTabs \ {last.from} = {currentTab}
\* The channel after one non-blocking send of m, as the contract states it
Enqueued(q, m) == IF Len(q) < ChanCap THEN Append(q, m) ELSE q

\* C8: Update() and UpdateWithMsg() can always be taken, armed listener or
\* not; below capacity they enqueue exactly one entry, at capacity nothing;
\* the channel never holds more than its capacity.
C8_SignalNeverBlocks ==
    /\ [](/\ Len(rcv) <= ChanCap
          /\ ~panicked => (/\ ENABLED TriggerUpdate
                           /\ \A m \in Payloads : ENABLED TriggerUpdateWithMsg(m)))
    /\ [][/\ TriggerUpdate => rcv' = Enqueued(rcv, UpdateMsgInstance)
          /\ \A m \in Payloads : TriggerUpdateWithMsg(m) => rcv' = Enqueued(rcv, m)]_vars

\* C8: Update() was called on a full channel while a listener was armed, and
\* dropped its signal.
C8_Witness ==
    /\ last.op = "TriggerUpdate"
    /\ last.ret = "dropped"
    /\ Len(rcv) = ChanCap
    /\ armed = 1

\* C9: at most one Listen command is armed or holds a message it has not yet
\* released the guard for, and Listen() called while the guard is set returns
\* nil and arms nothing.
C9_SingleListener ==
    /\ [](Outstanding <= 1)
    /\ [][(listening /\ (UpdateOther \/ \E m \in BagToSet(inflight) : UpdateBus(m)))
            => (armed' = armed /\ last'.ret # "cmd")]_vars

\* C9: Update called Listen() while a command was armed and got nil.
C9_Witness ==
    /\ last.op = "UpdateOther"
    /\ last.ret = "nil"
    /\ listening
    /\ armed = 1

\* C10 as stated: in the state in which a Listen command has just returned
\* its message the guard is false.
C10_GuardFalseOnceResolved ==
    last.op = "CmdReturn" => ~listening

\* C10 amended: the guard is set exactly while one command is armed or has
\* not yet released it, so once a command has returned its message the guard
\* is false unless a later Listen() has armed another command; and Listen()
\* called with the guard false returns a command and arms it.
C10_GuardReleasedOrRearmed ==
    /\ [](listening <=> Outstanding = 1)
    /\ [][(/\ ~listening
           /\ (UpdateOther \/ \E m \in BagToSet(inflight) : UpdateBus(m))
           /\ ~panicked'
           /\ last'.ret # "none")
            => (armed' = 1 /\ listening' /\ last'.ret = "cmd")]_vars

\* C10: a command has returned its message after a later Listen() had armed
\* another command.
C10_Witness ==
    /\ last.op = "CmdReturn"
    /\ listening
    /\ armed = 1

Range(q) == {q[i] : i \in 1..Len(q)}

\* C11: when Update returns from a message that came out of the channel, a
\* subscription is outstanding again: the guard is set and exactly one Listen
\* command is armed or about to release it.
C11_ResubscribedAfterDrain ==
    (last.op = "UpdateBus" /\ ~panicked) => (listening /\ Outstanding = 1)

\* C12: under fair scheduling, once the loop runs, a message in the channel
\* leads to Update handling a message from the channel, and the channel does
\* not stay non-empty for ever with no command armed.
C12_EnqueuedEventuallyReceived ==
    /\ (started /\ rcv # <<>>) ~> (last.op = "UpdateBus")
    /\ ~<>[](started /\ rcv # <<>> /\ armed = 0)

\* C13: every page in the registry has had its Init() called by Update, or
\* the AddPageMsg that makes Update call it is in the channel, held by a
\* command or on its way to Update.  Update's case AddPageMsg is the only
\* caller of a page's Init(), so a page with neither is never initialised.
C13_AddedPageInitPending ==
    \A i \in 1..Len(headers) :
        LET k == headers[i].key
        IN \/ k \in pageInits
           \/ AddPageMsg(k) \in Range(rcv)
           \/ BagIn(AddPageMsg(k), got (+) released (+) inflight)

\* C14: AddPage with a key some tab has leaves the tabs, the pages and the
\* active index as they are, AddPage with a new key appends one tab and its
\* page at the end, and the keys of the tabs are pairwise distinct.
C14_AddPageAppendsOnce ==
    /\ [](Cardinality(HeaderKeys(headers)) = Len(headers))
    /\ [][\A k \in Keys :
            (last'.op = "AddPage" /\ AddPage(k, DefaultTitle, k)) =>
                /\ UNCHANGED <<currentTab, hdrCurrentTab>>
                /\ IF k \in HeaderKeys(headers)
                   THEN UNCHANGED <<headers, pages>>
                   ELSE /\ headers' = headers \o <<[key |-> k, title |-> DefaultTitle]>>
                        /\ pages' = pages \o <<k>>]_vars

\* C14: AddPage was called with the key of one of two or more tabs.
C14_Witness ==
    /\ last.op = "AddPage"
    /\ last.ret = "duplicate"
    /\ Len(headers) >= 2

\* C15: DeletePage with one tab left changes nothing in the registry (tabs,
\* pages, both active indices, the global lock, the locked keys), whatever
\* the key.
C15_DeleteAtOneTabIsNoOp ==
    [][\A k \in Keys :
        (last'.op = "DeletePage" /\ Len(headers) = 1 /\ DeletePage(k))
            => UNCHANGED registry]_vars

\* C15: DeletePage was refused on the last tab, which is locked.
C15_Witness ==
    /\ last.op = "DeletePage"
    /\ last.ret = "refused"
    /\ Len(headers) = 1
    /\ headers[1].key \in lockedTabs

\* C16: DeletePage of the active tab, with more than one tab, removes that
\* tab and its page and sets both active indices to 0, so the active tab is
\* the first of the remaining ones.
C16_DeleteActiveSelectsFirst ==
    [][\A k \in Keys :
        (/\ last'.op = "DeletePage"
         /\ Len(headers) > 1
         /\ ActiveInRange
         /\ GetActivePage = k
         /\ DeletePage(k)) =>
            /\ currentTab' = 0
            /\ hdrCurrentTab' = 0
            /\ k \notin HeaderKeys(headers')
            /\ Len(headers') = Len(headers) - 1
            /\ Len(pages') = Len(headers')
            /\ headers'[currentTab' + 1] =
                    (IF headers[1].key = k THEN headers[2] ELSE headers[1])]_vars

\* C16: the active tab, not the first one, was deleted.
C16_Witness ==
    /\ last.op = "DeletePage"
    /\ last.ret = "done"
    /\ last.from > 0
    /\ currentTab = 0
    /\ hdrCurrentTab = 0

\* C17: SetActivePage(key) makes the tab with that key the active one when
\* there is one, locked or not, and leaves the active index as it is when
\* there is none.
C17_SetActivePage ==
    [][\A k \in Keys :
        (last'.op = "SetActivePage" /\ SetActivePage(k)) =>
            IF k \in HeaderKeys(headers)
            THEN /\ currentTab' \in 0..(Len(headers') - 1)
                 /\ headers'[currentTab' + 1].key = k
                 /\ hdrCurrentTab' = currentTab'
            ELSE UNCHANGED <<currentTab, hdrCurrentTab>>]_vars

\* C17: SetActivePage moved to a tab that is locked, under the global lock.
C17_Witness ==
    /\ last.op = "SetActivePage"
    /\ currentTab # last.from
    /\ ActiveInRange
    /\ lockTabs
    /\ IsTabLocked(GetActivePage)

\* C19: Init panics exactly when no page is registered; with a page it
\* returns, the loop runs, and the batch it returns holds one Listen command:
\* the guard is set and one command is armed.
C19_InitPanicsIffNoPage ==
    last.op = "Init" =>
        /\ panicked <=> Len(pages) = 0
        /\ panicked => (~started /\ ~listening /\ armed = 0)
        /\ ~panicked => (started /\ listening /\ armed = 1)

\* C19: Init returned with a page registered and signals already waiting.
C19_Witness ==
    /\ last.op = "Init"
    /\ Len(pages) >= 1
    /\ started
    /\ armed = 1
    /\ rcv # <<>>

\* C18: UpdatePageTitle, DeletePage, SetActivePage, LockTab and UnlockTab
\* called on a registry with tabs, with a key no tab has, end without a panic
\* and leave the tabs, the pages, both active indices, the global lock and
\* the locked keys as they are.
C18_UnknownKeyIsNoOp ==
    [][\A k \in ViewKeys :
        (/\ headers # <<>>
         /\ k \notin HeaderKeys(headers)
         /\ \/ \E t \in Titles : UpdatePageTitle(k, t)
            \/ DeletePage(k)
            \/ SetActivePage(k)
            \/ LockTab(k)
            \/ UnlockTab(k))
        => (UNCHANGED registry /\ ~panicked')]_vars

\* The width the header needs: for every tab its title, both paddings and 2,
\* and 2 more
RequiredWidth == calculateTitleLength(headers, leftTabPadding, rightTabPadding) + 2

\* C20: whenever the terminal is ready and narrower than the header needs,
\* View returns the placeholder for the headers.  Stated for the states in
\* which no HeaderSizeMsg is still on its way to Update and the widgets are
\* reported to fit.
C20_NarrowShowsPlaceholder ==
    (/\ termReady
     /\ sizeCmds = EmptyBag
     /\ termSizeNotEnoughToHandleWidgets
     /\ vpWidth < RequiredWidth)
    => View = "terminal size is not enough to show headers"

\* C28: after any sequence of AddPage and DeletePage the page list and the
\* header list have the same length, and the page at index i is the page
\* that was supplied with the key of the header at index i.
C28_PagesPairedWithHeaders ==
    ~panicked =>
        /\ Len(pages) = Len(headers)
        /\ \A i \in 1..Len(headers) : pages[i] = headers[i].key

\* C28: a tab was deleted, and the pages left are those of the first and
\* the third key.
C28_Witness ==
    /\ last.op = "DeletePage"
    /\ last.ret = "done"
    /\ pages = <<KeyNames[1], KeyNames[3]>>
    /\ HeaderKeys(headers) = {KeyNames[1], KeyNames[3]}

\* C30: DeletePage of an existing tab that is not the active one leaves the
\* key of the active tab as it was, also when the deleted tab lies to the
\* left of the active one.
C30_DeleteOtherKeepsActiveKey ==
    [][\A k \in Keys :
        (/\ last'.op = "DeletePage"
         /\ Len(headers) > 1
         /\ ActiveInRange
         /\ k \in HeaderKeys(headers)
         /\ GetActivePage # k
         /\ DeletePage(k)) =>
            /\ currentTab' >= 0
            /\ currentTab' < Len(headers')
            /\ headers'[currentTab' + 1].key = headers[currentTab + 1].key]_vars

\* C21: View returns the not-ready placeholder exactly as long as no resize
\* with a positive width and a positive height has been handled: it does at
\* the start, a step ends with another result exactly when the result was
\* another one before or the step handles a resize with both dimensions
\* positive.
C21_PlaceholderUntilPositiveResize ==
    /\ View = "setting up terminal..."
    /\ [][(View' # "setting up terminal...") <=>
            \/ View # "setting up terminal..."
            \/ /\ last'.op = "UpdateWindowSize"
               /\ vpWidth' > 0
               /\ vpHeight' > 0]_vars

\* C21: the terminal is ready and the resize just handled has height 0.
C21_Witness ==
    /\ View # "setting up terminal..."
    /\ last.op = "UpdateWindowSize"
    /\ vpWidth > 0
    /\ vpHeight = 0

\* C25: the width and the height of the viewport change only in a step that
\* handles a resize event.
C25_ViewportWrittenOnResizeOnly ==
    [][(vpWidth' # vpWidth \/ vpHeight' # vpHeight)
            => last'.op = "UpdateWindowSize"]_vars

\* The steps in which Update passes a message to a page
ForwardingOps == {"left", "right", "UpdateBus", "UpdateOther", "UpdateWindowSize",
                  "IAMActivePage"}

\* C26: a message Update forwards (a key, a resize, a message from the bus,
\* a message of an unknown type) goes to the page at the active index of
\* that moment, the page of the active tab, and to no other page.
C26_ForwardedToActivePageOnly ==
    (last.op \in ForwardingOps /\ ~panicked /\ last.ret # "none") =>
        /\ ActiveInRange
        /\ last.page = pages[currentTab + 1]
        /\ last.page = GetActivePage

\* C26: a message from the bus went to the second of two pages.
C26_Witness ==
    /\ last.op = "UpdateBus"
    /\ ~panicked
    /\ Len(pages) = 2
    /\ currentTab = 1
    /\ last.page = KeyNames[2]

\* One IAMActivePage command when the key changes the active tab, none
\* otherwise.
OneFollowUpPerSwitch ==
    [][\A position \in {"left", "right"} :
        (UpdateKeyCmd(position) /\ ~panicked') =>
            IF currentTab' # hdrCurrentTab
            THEN iam' = iam (+) SetToBag({pages[currentTab' + 1]})
            ELSE iam' = iam]_vars

\* C27: a navigation key that changes the active tab emits one IAMActivePage
\* command, a key that does not change it emits none, and the message of a
\* command is delivered to the page its key made active.
C27_FollowUpReachesNewActivePage ==
    /\ OneFollowUpPerSwitch
    /\ [][\A k \in ViewKeys :
            (UpdateIAMActivePage(k) /\ ~panicked') => last'.page = k]_vars

\* C29: a widget write to a key the bar has keeps one entry for the key, at
\* its position, with the new value, and leaves the others alone; a write
\* to a key the bar does not have (never written, or removed) appends one
\* entry at the end; no two entries have the same key.
C29_WidgetWriteUpserts ==
    /\ [](\A i, j \in 1..Len(widgets) : widgets[i].key = widgets[j].key => i = j)
    /\ [][\A k \in WidgetKeys, v \in WidgetValues :
            (last'.op = "UpdateWidgetValue" /\ UpdateWidgetValue(k, v)) =>
                IF \E i \in 1..Len(widgets) : widgets[i].key = k
                THEN /\ Len(widgets') = Len(widgets)
                     /\ \A i \in 1..Len(widgets) :
                            widgets'[i] = IF widgets[i].key = k
                                          THEN [key |-> k, value |-> v]
                                          ELSE widgets[i]
                ELSE widgets' = Append(widgets, [key |-> k, value |-> v])]_vars

\* C29: the first of two entries was written in place with another value.
C29_Witness ==
    /\ last.op = "UpdateWidgetValue"
    /\ last.ret = "updated"
    /\ Len(widgets) = 2
    /\ widgets[1] = [key |-> WidgetNames[2], value |-> "10:01"]
    /\ widgets[2].key = WidgetNames[1]

\* The public mutators, by the name of their step
MutatorOps == {"AddPage", "UpdatePageTitle", "DeletePage", "SetActivePage",
               "LockTabs", "UnlockTabs", "LockTab", "UnlockTab",
               "LockTabsToTheRight", "LockTabsToTheLeft", "AddWidget",
               "UpdateWidgetValue", "DeleteWidget", "DeleteAllWidgets",
               "SetBorderColor", "SetTabLeftPadding", "SetTabRightPadding"}

\* What the screen shows of the tabs, the locks, the widgets, the colour and
\* the paddings
Visible == <<headers, pages, currentTab, hdrCurrentTab, lockTabs, lockedTabs,
             widgets, borderColor, leftTabPadding, rightTabPadding>>

C23_GuardNotHeldAcrossReceive ==
    /\ mu = "cmd" =>
            /\ got # EmptyBag
            /\ ENABLED (\E m \in BagToSet(got) : CmdUnlock(m))
    /\ mu = "loop" =>
            /\ loopPc = "inListen"
            /\ ENABLED ListenUnlock
    /\ (loopPc = "wantListen" /\ ~panicked) =>
            \/ ENABLED ListenLock
            \/ ENABLED (\E m \in BagToSet(got) : CmdUnlock(m))
    /\ ~panicked => ENABLED TriggerUpdate

\* C23: the loop is about to lock in Listen while the command, past its
\* receive, holds the mutex, and the channel is empty.
C23_Witness ==
    /\ loopPc = "wantListen"
    /\ mu = "cmd"
    /\ rcv = <<>>
    /\ armed = 0

\* C24: the state of the Skeleton, of the header and of the widget bar is
\* read and written on the loop thread only: no goroutine is inside a call
\* that reads or writes it while the loop thread is inside View.
C24_StateOnLoopThreadOnly ==
    ~(bgPc = "UpdateWidgetValue" /\ loopPc = "View")

\* C31: the individually locked keys are keys of tabs: DeletePage takes the
\* lock of the deleted tab away, so a tab AddPage adds is not locked when it
\* is added.
C31_LockedKeysHaveTabs ==
    /\ [](~panicked => lockedTabs \subseteq HeaderKeys(headers))
    /\ [][\A k \in Keys :
            (/\ last'.op = "AddPage"
             /\ k \notin HeaderKeys(headers)
             /\ AddPage(k, DefaultTitle, k)) => k \notin lockedTabs']_vars

\* C38: the header's own status of all tabs locked, GetLockTabs, equals the
\* global flag of the Skeleton, IsTabsLocked, in every state.
C38_HeaderLockStatusIsGlobalFlag ==
    ~panicked => (GetLockTabs <=> IsTabsLocked)

\* C32: the active index of the Skeleton and the active index of the header
\* are equal after every public operation and every Update, so the index
\* Update copies from the header at its start is the one the Skeleton
\* already has: no result of a navigation key or of SetActivePage is lost.
C32_IndicesAgree ==
    /\ [](currentTab = hdrCurrentTab)
    /\ [][last'.op \in {"left", "right", "IAMActivePage"}
            => last'.from = hdrCurrentTab]_vars

\* C32: Update handled a message after the active tab had been moved away
\* from the first tab.
C32_Witness ==
    /\ last.op = "IAMActivePage"
    /\ ~panicked
    /\ last.from > 0
    /\ currentTab = last.from

\* Keys of the tabs whose index is in S
KeysAt(S) == {headers[i + 1].key : i \in S \cap (0..(Len(headers) - 1))}

\* C33: LockTabsToTheRight locks the tabs whose index is greater than the
\* active index and no other, LockTabsToTheLeft those whose index is smaller
\* and no other; the tabs, the active index and the global flag stay as they
\* are, and with no tab on the side nothing changes, the channel included.
C33_SideLocks ==
    /\ [][last'.op = "LockTabsToTheRight" =>
            /\ lockedTabs' = lockedTabs \cup KeysAt((currentTab + 1)..(Len(headers) - 1))
            /\ \A k \in KeysAt(0..currentTab) : k \in lockedTabs' <=> k \in lockedTabs
            /\ UNCHANGED <<headers, pages, currentTab, hdrCurrentTab, lockTabs>>
            /\ KeysAt((currentTab + 1)..(Len(headers) - 1)) = {}
                    => UNCHANGED <<lockedTabs, rcv>>]_vars
    /\ [][last'.op = "LockTabsToTheLeft" =>
            /\ lockedTabs' = lockedTabs \cup KeysAt(0..(currentTab - 1))
            /\ \A k \in KeysAt(currentTab..(Len(headers) - 1)) :
                    k \in lockedTabs' <=> k \in lockedTabs
            /\ UNCHANGED <<headers, pages, currentTab, hdrCurrentTab, lockTabs>>
            /\ KeysAt(0..(currentTab - 1)) = {}
                    => UNCHANGED <<lockedTabs, rcv>>]_vars

\* C33: LockTabsToTheRight was called on the second of three tabs, the first
\* of them locked before, and has locked the third.
C33_Witness ==
    /\ last.op = "LockTabsToTheRight"
    /\ Len(headers) = 3
    /\ currentTab = 1
    /\ lockedTabs = {headers[1].key, headers[3].key}

\* C34: View chooses by strict priority: the not-ready placeholder while the
\* terminal is not ready; else the header placeholder when the header does
\* not fit, whether the widgets fit or not; else the widgets placeholder
\* when the widgets do not fit; else the layout.  Both flags start as "does
\* not fit": View returns no layout at the start, and the layout first
\* appears in a step that handles a size message.
C34_ViewPriority ==
    /\ [](~termReady => View = "setting up terminal...")
    /\ []((termReady /\ ~termSizeNotEnoughToHandleHeaders)
            => View = "terminal size is not enough to show headers")
    /\ []((termReady /\ termSizeNotEnoughToHandleHeaders
                    /\ ~termSizeNotEnoughToHandleWidgets)
            => View = "terminal size is not enough to show widgets")
    /\ []((termReady /\ termSizeNotEnoughToHandleHeaders
                    /\ termSizeNotEnoughToHandleWidgets /\ ~panicked)
            => View = "layout")
    /\ ~termSizeNotEnoughToHandleHeaders
    /\ ~termSizeNotEnoughToHandleWidgets
    /\ [][(View' = "layout" /\ View # "layout")
            => last'.op \in {"UpdateWindowSize", "UpdateHeaderSize",
                             "UpdateWidgetSize"}]_vars

\* C34: the terminal is ready, the widgets were just reported not to fit and
\* the header does not fit either.
C34_Witness ==
    /\ termReady
    /\ last.op = "UpdateWidgetSize"
    /\ ~termSizeNotEnoughToHandleWidgets
    /\ ~termSizeNotEnoughToHandleHeaders
    /\ sizeCmds = EmptyBag

RECURSIVE SumTabWidths(_)
\* The title length, both paddings and 2, summed over the first n tabs
SumTabWidths(n) ==
    IF n = 0 THEN 0
    ELSE Len(headers[n].title) + leftTabPadding + rightTabPadding + 2
         + SumTabWidths(n - 1)

\* C35: a resize to width w stores as the header's required width the sum
\* over the tabs of title length, both paddings and 2, and its size message
\* says that the header fits exactly when w - (required width + 2) >= 0; the
\* step that handles the message sets the header flag to what it says.
C35_HeaderFit ==
    /\ [][(last'.op = "UpdateWindowSize" /\ ~panicked') =>
            /\ titleLength' = SumTabWidths(Len(headers))
            /\ sizeCmds' = sizeCmds (+)
                    SetToBag({vpWidth' - (SumTabWidths(Len(headers)) + 2) >= 0})]_vars
    /\ [][last'.op = "UpdateHeaderSize" =>
            \E b \in BOOLEAN :
                /\ sizeCmds = sizeCmds' (+) SetToBag({b})
                /\ termSizeNotEnoughToHandleHeaders' = b]_vars

\* C35: the titles alone fill the 12 columns of the terminal, and the
\* message handled said that the header does not fit.
C35_Witness ==
    /\ last.op = "UpdateHeaderSize"
    /\ vpWidth = 12
    /\ titleLength = 12
    /\ sizeCmds = EmptyBag
    /\ ~termSizeNotEnoughToHandleHeaders

\* The content height: the viewport's height less 5, and less 1 more when
\* there is a widget
ContentHeight == vpHeight - 5 - (IF widgets = <<>> THEN 0 ELSE 1)

\* C36 (as stated): in the composed layout a body shorter than the content
\* height gets blank lines above its own lines, up to exactly the content
\* height; a body at least that long, and any body when the content height
\* is zero or negative, is unchanged.
C36_TopPadded ==
    View = "layout" =>
        \A body \in Bodies :
            LET n == ContentHeight - Len(body)
            IN IF n > 0
               THEN /\ Len(PaddedBody(body)) = ContentHeight
                    /\ \A i \in 1..n : PaddedBody(body)[i] = ""
                    /\ SubSeq(PaddedBody(body), n + 1, ContentHeight) = body
               ELSE PaddedBody(body) = body

\* C36 (amended): the blank lines come after the body's own lines; the
\* counts, and the bodies left unchanged, are as stated.
C36_BottomPadded ==
    View = "layout" =>
        \A body \in Bodies :
            LET n == ContentHeight - Len(body)
            IN IF n > 0
               THEN /\ Len(PaddedBody(body)) = ContentHeight
                    /\ SubSeq(PaddedBody(body), 1, Len(body)) = body
                    /\ \A i \in (Len(body) + 1)..ContentHeight :
                            PaddedBody(body)[i] = ""
               ELSE PaddedBody(body) = body

\* C36: the layout is composed on a terminal of 7 rows without a widget:
\* the content height is 2, a one-line body gets one blank line after its
\* line and a two-line body is returned as it is.
C36_Witness ==
    /\ View = "layout"
    /\ vpHeight = 7
    /\ widgets = <<>>
    /\ ContentHeight = 2
    /\ PaddedBody(<<"x">>) = <<"x", "">>
    /\ PaddedBody(<<"", "x">>) = <<"", "x">>
    /\ last.op = "DeleteAllWidgets"

\* The message is in the channel or with a command that has not yet had it
\* handled by Update.
OnItsWay(m) ==
    \/ \E i \in 1..Len(rcv) : rcv[i] = m
    \/ BagIn(m, got (+) released (+) inflight)

\* C37: the messages that were enqueued reach Update once each and in the
\* order of their enqueueing, also when a command releases the guard and a
\* new command is armed and run before the first one's message has been
\* handed to Update.  Pages are added, and their AddPageMsg enqueued, in
\* the order of s.pages: the message of a later page is never handled while
\* the message of an earlier page is still on its way, and no page's
\* message is handled twice.
C37_OnceAndInOrder ==
    /\ [](\A i, j \in 1..Len(pages) :
            (i < j /\ pages[j] \in pageInits) => ~OnItsWay(AddPageMsg(pages[i])))
    /\ [][\A k \in TwoKeys :
            (last'.op = "UpdateBus" /\ BagIn(AddPageMsg(k), inflight)
                /\ inflight' = inflight (-) One(AddPageMsg(k)))
            => k \notin pageInits]_vars

============================================================================
